---- MODULE Spec2Model ----
(***************************************************************************)
(* Model of info/convert.py: the line-oriented parser parse_text, its      *)
(* closures place_option and flush_question, and the text utilities        *)
(* finalize_question_text and normalize_inline.                            *)
(*                                                                         *)
(* A Python str is a sequence of one-character strings, so that the        *)
(* regular expressions, strip(), int() and the format specs are computed   *)
(* character by character.  None (for current_year and current_qnum) is    *)
(* the empty sequence: a captured token is never empty.                    *)
(***************************************************************************)
EXTENDS Integers, Sequences, FiniteSets, TLC

\* ---------------------------------------------------------------- bounds
\* Largest number of lines of the input text.
MaxLines == 6

\* Largest number of lines of an input text made of DupLines.
MaxDupLines == 7

\* Largest length of a stem buffer handed to finalize_question_text.
MaxStem == 6

\* Largest number of questions of one year in the file that is re-indexed.
MaxYearQuestions == 2

\* Largest number of rows, and of cells of a row, of a table that is rendered.
MaxRows == 2

MaxCols == 2

\* Largest number of lines of an input text that holds a rendered table.
MaxTableDocLines == 6

\* Lines of a text with multi-digit question numbers.
MaxIdLines == 4

\* ------------------------------------------------------------ characters
Digits == {"0", "1", "2", "3", "4", "5", "6", "7", "8", "9"}

OptLetters == {"a", "b", "c", "d"}

LetterOrder == <<"a", "b", "c", "d">>

None == <<>>

NoLetter == "None"

IsSpace(c) == c = " "

RECURSIVE lstrip(_)
lstrip(s) ==
    IF s # <<>> /\ IsSpace(Head(s)) THEN lstrip(Tail(s)) ELSE s

RECURSIVE rstrip(_)
rstrip(s) ==
    IF s # <<>> /\ IsSpace(s[Len(s)]) THEN rstrip(SubSeq(s, 1, Len(s) - 1)) ELSE s

strip(s) == lstrip(rstrip(s))

\* Number of leading characters of s that are digits (the greedy \d+).
RECURSIVE DigitRun(_)
DigitRun(s) ==
    IF s # <<>> /\ Head(s) \in Digits THEN 1 + DigitRun(Tail(s)) ELSE 0

DigitVal(c) ==
    CASE c = "0" -> 0 [] c = "1" -> 1 [] c = "2" -> 2 [] c = "3" -> 3
      [] c = "4" -> 4 [] c = "5" -> 5 [] c = "6" -> 6 [] c = "7" -> 7
      [] c = "8" -> 8 [] c = "9" -> 9

DigitChar(d) == <<"0", "1", "2", "3", "4", "5", "6", "7", "8", "9">>[d + 1]

\* int(s) for a string of decimal digits.
RECURSIVE int(_)
int(s) ==
    IF s = <<>> THEN 0 ELSE 10 * int(SubSeq(s, 1, Len(s) - 1)) + DigitVal(s[Len(s)])

\* str(n) for n >= 0.
RECURSIVE str(_)
str(n) ==
    IF n < 10 THEN <<DigitChar(n)>> ELSE str(n \div 10) \o <<DigitChar(n % 10)>>

\* f"{n}": the format spec without the 02 width.
fmt02d_unpadded(n) == str(n)

\* f"{n:02d}": decimal, padded on the left with zeros to at least 2 characters.
fmt02d(n) == IF Len(str(n)) < 2 THEN <<"0">> \o str(n) ELSE str(n)

upper(letter) ==
    CASE letter = "a" -> "A" [] letter = "b" -> "B"
      [] letter = "c" -> "C" [] letter = "d" -> "D"

\* -------------------------------------------------------------- regexes
\* YEAR_RE = ^\s*(\d{4})\s*$
YEAR_RE_match(line) ==
    LET t == strip(line)
    IN  Len(t) = 4 /\ \A i \in 1..4 : t[i] \in Digits

YEAR_RE_group1(line) == strip(line)

\* QSTART_RE = ^\s*(\d+)\.\s*(.*\S)?\s*$
QSTART_RE_match(line) ==
    LET t == lstrip(line)
        k == DigitRun(t)
    IN  k >= 1 /\ Len(t) > k /\ t[k + 1] = "."

QSTART_RE_group1(line) ==
    LET t == lstrip(line) IN SubSeq(t, 1, DigitRun(t))

\* group(2) or '': the empty sequence stands for both None and ''.
QSTART_RE_group2(line) ==
    LET t == lstrip(line) IN strip(SubSeq(t, DigitRun(t) + 2, Len(t)))

\* OPT_RE = ^\s*\(?([a-d])[\).]\s*(.*\S)?\s*$
OptBody(line) ==
    LET t == lstrip(line)
    IN  IF t # <<>> /\ Head(t) = "(" THEN Tail(t) ELSE t

OPT_RE_match(line) ==
    LET u == OptBody(line)
    IN  Len(u) >= 2 /\ u[1] \in OptLetters /\ u[2] \in {")", "."}

OPT_RE_group1(line) == OptBody(line)[1]

OPT_RE_group2(line) ==
    LET u == OptBody(line) IN strip(SubSeq(u, 3, Len(u)))

\* ----------------------------------------------------------- text utils
\* re.sub(r'\s+', ' ', s): every run of whitespace becomes one space.
RECURSIVE CollapseSpaces(_)
CollapseSpaces(s) ==
    IF s = <<>> THEN <<>>
    ELSE IF IsSpace(Head(s))
         THEN <<" ">> \o CollapseSpaces(lstrip(s))
         ELSE <<Head(s)>> \o CollapseSpaces(Tail(s))

normalize_inline(s) == strip(CollapseSpaces(s))

IsBlank(ln) == strip(ln) = <<>>

\* while lines and not lines[0].strip(): lines.pop(0)
RECURSIVE PopLeadingBlank(_)
PopLeadingBlank(lines) ==
    IF lines # <<>> /\ IsBlank(Head(lines)) THEN PopLeadingBlank(Tail(lines)) ELSE lines

\* while lines and not lines[-1].strip(): lines.pop()
RECURSIVE PopTrailingBlank(_)
PopTrailingBlank(lines) ==
    IF lines # <<>> /\ IsBlank(lines[Len(lines)])
    THEN PopTrailingBlank(SubSeq(lines, 1, Len(lines) - 1))
    ELSE lines

\* The loop without the prev_blank test: every blank line is kept.
RECURSIVE CollapseLoop_keeps_blanks(_, _)
CollapseLoop_keeps_blanks(lines, prev_blank) ==
    IF lines = <<>> THEN <<>>
    ELSE IF IsBlank(Head(lines))
         THEN << <<>> >> \o CollapseLoop_keeps_blanks(Tail(lines), TRUE)
         ELSE <<rstrip(Head(lines))>> \o CollapseLoop_keeps_blanks(Tail(lines), FALSE)

\* The for loop of finalize_question_text: out after the lines given, started
\* with the flag prev_blank.
RECURSIVE CollapseLoop(_, _)
CollapseLoop(lines, prev_blank) ==
    IF lines = <<>> THEN <<>>
    ELSE IF IsBlank(Head(lines))
         THEN (IF prev_blank THEN <<>> ELSE << <<>> >>) \o CollapseLoop(Tail(lines), TRUE)
         ELSE <<rstrip(Head(lines))>> \o CollapseLoop(Tail(lines), FALSE)

\* The list out of finalize_question_text, before the join.
FinalLines(lines) == CollapseLoop(PopTrailingBlank(PopLeadingBlank(lines)), FALSE)

\* "\n".join(parts)
RECURSIVE join_nl(_)
join_nl(parts) ==
    IF parts = <<>> THEN <<>>
    ELSE IF Len(parts) = 1 THEN parts[1]
         ELSE parts[1] \o <<"\n">> \o join_nl(Tail(parts))

finalize_question_text(lines) == join_nl(FinalLines(lines))

\* ------------------------------------------------------------ input lines
Y2020 == <<"2", "0", "2", "0">>

Y2019 == <<"2", "0", "1", "9">>

Cats == <<"c", "a", "t", "s">>

Dogs == <<"d", "o", "g", "s">>

OptCats == <<"(", "a", ")", " ">> \o Cats

OptDogs == <<"(", "a", ")", " ">> \o Dogs

\* The lines the input text is made of (text.splitlines()).
Lines ==
    { Y2020,                              \* "2020"
      <<" ">> \o Y2019,                   \* " 2019"
      <<"1", ".", " ", "x">>,             \* "1. x"
      <<"2", ".">>,                       \* "2."
      OptCats,                            \* "(a) cats"
      OptDogs,                            \* "(a) dogs"
      <<"b", ")", " ", "r", " ">>,        \* "b) r "
      <<" ", "y">>,                       \* " y"
      <<" ">> }                           \* " "

\* The lines of the texts that repeat an option label.
DupLines ==
    { Y2020,                              \* "2020"
      <<"1", ".", " ", "x">>,             \* "1. x"
      OptCats,                            \* "(a) cats"
      OptDogs,                            \* "(a) dogs"
      <<"b", ")">>,                       \* "b)": a marker without text
      <<" ", "y">> }                      \* " y"

\* The lines a stem buffer is made of: rstripped, no year heading, no option
\* marker.  "C" stands for "Consider the following:", "1. A" and "2. B" for
\* "1. Pointer A" and "2. Pointer B".
StemVocabulary ==
    { <<>>, <<"C">>, <<"1", ".", " ", "A">>, <<"2", ".", " ", "B">>, <<" ", "y">> }

StemBuffers == UNION {[1..k -> StemVocabulary] : k \in 0..MaxStem}

\* ---------------------------------------------------------- parser state
VARIABLES
    years,          \* dict: year token -> list of question records
    current_year,   \* None or the token of the last year heading
    current_qnum,   \* None or the numeric token of the open question
    q_lines,        \* list of stem lines of the open question
    options,        \* dict: option letter -> accumulated text
    current_opt,    \* NoLetter or the letter of the last option marker
    in_options,     \* an option marker was seen for the open question
    raw,            \* the line read by the current loop iteration
    left,           \* number of lines of the input not yet read
    pc,             \* "loop" while lines are read, "done" after the return
    arg,            \* argument of a direct call of finalize_question_text
    ret             \* its return value

vars ==
    <<years, current_year, current_qnum, q_lines, options, current_opt,
      in_options, raw, left, pc, arg, ret>>

EmptyDict == [k \in {} |-> <<>>]

\* d[k] = v for a dict d.
DictSet(d, k, v) == [x \in DOMAIN d \cup {k} |-> IF x = k THEN v ELSE d[x]]

\* d.get(k, '')
DictGet(d, k) == IF k \in DOMAIN d THEN d[k] ELSE <<>>

\* letter in options and options[letter].strip()
SlotFilled(opts, letter) == letter \in DOMAIN opts /\ strip(opts[letter]) # <<>>

\* The letter place_option writes to: the first of a, b, c, d that is absent or
\* empty when the requested slot is taken, the requested letter otherwise (also
\* when the scan finds no free slot and falls out of the for loop).
PlaceTarget(opts, letter) ==
    LET free == {i \in 1..4 : ~SlotFilled(opts, LetterOrder[i])}
    IN  IF SlotFilled(opts, letter) /\ free # {}
        THEN LetterOrder[CHOOSE i \in free : \A j \in free : i <= j]
        ELSE letter

\* place_option without the duplicate-label guard: always writes the requested slot.
place_option_overwrite(opts, letter, text_val) == DictSet(opts, letter, text_val)

place_option(opts, letter, text_val) ==
    DictSet(opts, PlaceTarget(opts, letter), text_val)

\* opt_list built from the letters present in the dict instead of a, b, c, d.
OptList_present(opts) ==
    LET present == SelectSeq(LetterOrder, LAMBDA l : l \in DOMAIN opts)
    IN  [i \in 1..Len(present) |->
            <<upper(present[i]), ".", " ">> \o normalize_inline(opts[present[i]])]

\* opt_list of flush_question.
OptList(opts) ==
    [i \in 1..4 |->
        LET t == normalize_inline(DictGet(opts, LetterOrder[i]))
        IN  <<upper(LetterOrder[i]), ".", " ">> \o t]

\* q_id of flush_question.
QId(year, qnum) ==
    <<"P", "O", "L", "-">> \o year \o <<"-">> \o fmt02d(int(qnum))

QuestionRecord(year, qnum, lines, opts) ==
    [ id          |-> QId(year, qnum),
      question    |-> finalize_question_text(lines),
      options     |-> OptList(opts),
      answer      |-> <<>>,
      explanation |-> <<>>,
      difficulty  |-> <<"M">> ]

\* years[key] = [rec]: the list of the year is replaced, not extended.
AppendRecord_replaces(ys, key, rec) == DictSet(ys, key, <<rec>>)

\* years.setdefault(key, []).append(rec)
AppendRecord(ys, key, rec) ==
    IF key \in DOMAIN ys
    THEN [ys EXCEPT ![key] = Append(@, rec)]
    ELSE DictSet(ys, key, <<rec>>)

FlushIsNoOp == current_qnum = None \/ current_year = None

\* years after flush_question().
FlushedYears ==
    IF FlushIsNoOp THEN years
    ELSE AppendRecord(years, current_year,
                      QuestionRecord(current_year, current_qnum, q_lines, options))

\* q_lines and options after flush_question() (unchanged by the early return).
FlushedLines == IF FlushIsNoOp THEN q_lines ELSE <<>>

\* flush_question without "options = {}".
FlushedOptions_kept == options

FlushedOptions == IF FlushIsNoOp THEN options ELSE EmptyDict

\* line = raw.rstrip()
LineOf(r) == rstrip(r)

\* parse_text is entered with a text of len lines.
ParseEntry(len) ==
    /\ years = EmptyDict
    /\ current_year = None
    /\ current_qnum = None
    /\ q_lines = <<>>
    /\ options = EmptyDict
    /\ current_opt = NoLetter
    /\ in_options = FALSE
    /\ raw = None
    /\ left = len
    /\ pc = "loop"
    /\ arg = None
    /\ ret = None

Init == \E len \in 0..MaxLines : ParseEntry(len)

InitDup == \E len \in 0..MaxDupLines : ParseEntry(len)

\* The loop reads the next line.
Read(r) ==
    /\ pc = "loop"
    /\ left > 0
    /\ raw' = r
    /\ left' = left - 1
    /\ UNCHANGED <<pc, arg, ret>>

\* The heading branch with the year switched before the flush: the open
\* question is emitted under the new year.
YearHeading_switches_first(r) ==
    /\ Read(r)
    /\ YEAR_RE_match(LineOf(r))
    /\ years' = IF current_qnum = None THEN years
                ELSE AppendRecord(years, YEAR_RE_group1(LineOf(r)),
                         QuestionRecord(YEAR_RE_group1(LineOf(r)), current_qnum,
                                        q_lines, options))
    /\ current_year' = YEAR_RE_group1(LineOf(r))
    /\ current_qnum' = None
    /\ q_lines' = IF current_qnum = None THEN q_lines ELSE <<>>
    /\ options' = IF current_qnum = None THEN options ELSE EmptyDict
    /\ current_opt' = IF current_qnum = None THEN current_opt ELSE NoLetter
    /\ in_options' = IF current_qnum = None THEN in_options ELSE FALSE

\* if m_year: flush_question(); current_year = m_year.group(1); continue
YearHeading(r) ==
    /\ Read(r)
    /\ YEAR_RE_match(LineOf(r))
    /\ years' = FlushedYears
    /\ current_year' = YEAR_RE_group1(LineOf(r))
    /\ current_qnum' = None
    /\ q_lines' = FlushedLines
    /\ options' = FlushedOptions
    /\ current_opt' = IF FlushIsNoOp THEN current_opt ELSE NoLetter
    /\ in_options' = IF FlushIsNoOp THEN in_options ELSE FALSE

\* The branch without "if first_part": the stem is seeded with the trailing
\* text also when it is empty.
QuestionStart_seeds_empty(r) ==
    /\ Read(r)
    /\ ~YEAR_RE_match(LineOf(r))
    /\ current_year # None
    /\ QSTART_RE_match(LineOf(r))
    /\ current_qnum = None \/ options # EmptyDict
    /\ years' = FlushedYears
    /\ current_qnum' = QSTART_RE_group1(LineOf(r))
    /\ q_lines' = Append(FlushedLines, QSTART_RE_group2(LineOf(r)))
    /\ options' = FlushedOptions
    /\ in_options' = FALSE
    /\ current_opt' = NoLetter
    /\ UNCHANGED current_year

\* m_q and (current_qnum is None or options): flush and open a new question.
QuestionStart(r) ==
    /\ Read(r)
    /\ ~YEAR_RE_match(LineOf(r))
    /\ current_year # None
    /\ QSTART_RE_match(LineOf(r))
    /\ current_qnum = None \/ options # EmptyDict
    /\ years' = FlushedYears
    /\ current_qnum' = QSTART_RE_group1(LineOf(r))
    /\ q_lines' = IF QSTART_RE_group2(LineOf(r)) # <<>>
                  THEN Append(FlushedLines, QSTART_RE_group2(LineOf(r)))
                  ELSE FlushedLines
    /\ options' = FlushedOptions
    /\ in_options' = FALSE
    /\ current_opt' = NoLetter
    /\ UNCHANGED current_year

\* The sub-point branch missing: the line opens a new question as in the
\* first branch.
SubPoint_splits(r) ==
    /\ Read(r)
    /\ ~YEAR_RE_match(LineOf(r))
    /\ current_year # None
    /\ QSTART_RE_match(LineOf(r))
    /\ ~(current_qnum = None \/ options # EmptyDict)
    /\ years' = FlushedYears
    /\ current_qnum' = QSTART_RE_group1(LineOf(r))
    /\ q_lines' = IF QSTART_RE_group2(LineOf(r)) # <<>>
                  THEN <<QSTART_RE_group2(LineOf(r))>>
                  ELSE <<>>
    /\ options' = EmptyDict
    /\ in_options' = FALSE
    /\ current_opt' = NoLetter
    /\ UNCHANGED current_year

\* m_q inside the stem, before any option: a numbered sub-point.
SubPoint(r) ==
    /\ Read(r)
    /\ ~YEAR_RE_match(LineOf(r))
    /\ current_year # None
    /\ QSTART_RE_match(LineOf(r))
    /\ ~(current_qnum = None \/ options # EmptyDict)
    /\ q_lines' = Append(q_lines, LineOf(r))
    /\ UNCHANGED <<years, current_year, current_qnum, options, current_opt, in_options>>

\* The line is neither a year heading nor (with a year set) a question start.
FallsThrough(r) ==
    /\ ~YEAR_RE_match(LineOf(r))
    /\ ~(current_year # None /\ QSTART_RE_match(LineOf(r)))

\* The marker branch with current_opt set to the slot place_option wrote to.
OptionMarker_follows_slot(r) ==
    /\ Read(r)
    /\ FallsThrough(r)
    /\ current_year # None /\ current_qnum # None
    /\ OPT_RE_match(LineOf(r))
    /\ in_options' = TRUE
    /\ current_opt' = PlaceTarget(options, OPT_RE_group1(LineOf(r)))
    /\ options' = place_option(options, OPT_RE_group1(LineOf(r)), OPT_RE_group2(LineOf(r)))
    /\ UNCHANGED <<years, current_year, current_qnum, q_lines>>

\* m_opt: in_options = True; current_opt = letter; place_option(...)
OptionMarker(r) ==
    /\ Read(r)
    /\ FallsThrough(r)
    /\ current_year # None /\ current_qnum # None
    /\ OPT_RE_match(LineOf(r))
    /\ in_options' = TRUE
    /\ current_opt' = OPT_RE_group1(LineOf(r))
    /\ options' = place_option(options, OPT_RE_group1(LineOf(r)), OPT_RE_group2(LineOf(r)))
    /\ UNCHANGED <<years, current_year, current_qnum, q_lines>>

\* The continuation branch also appending the line to the stem buffer.
OptionContinuation_into_stem(r) ==
    /\ Read(r)
    /\ FallsThrough(r)
    /\ current_year # None /\ current_qnum # None
    /\ ~OPT_RE_match(LineOf(r))
    /\ in_options /\ current_opt # NoLetter
    /\ options' = IF strip(LineOf(r)) # <<>>
                  THEN DictSet(options, current_opt,
                               strip(DictGet(options, current_opt) \o <<" ">> \o strip(LineOf(r))))
                  ELSE options
    /\ q_lines' = Append(q_lines, LineOf(r))
    /\ UNCHANGED <<years, current_year, current_qnum, current_opt, in_options>>

\* if in_options and current_opt: a non-blank line is joined to the active option.
OptionContinuation(r) ==
    /\ Read(r)
    /\ FallsThrough(r)
    /\ current_year # None /\ current_qnum # None
    /\ ~OPT_RE_match(LineOf(r))
    /\ in_options /\ current_opt # NoLetter
    /\ options' = IF strip(LineOf(r)) # <<>>
                  THEN DictSet(options, current_opt,
                               strip(DictGet(options, current_opt) \o <<" ">> \o strip(LineOf(r))))
                  ELSE options
    /\ UNCHANGED <<years, current_year, current_qnum, q_lines, current_opt, in_options>>

\* The stem line appended after normalize_inline instead of as read.
StemLine_normalizes(r) ==
    /\ Read(r)
    /\ FallsThrough(r)
    /\ current_year # None /\ current_qnum # None
    /\ ~OPT_RE_match(LineOf(r))
    /\ ~(in_options /\ current_opt # NoLetter)
    /\ q_lines' = Append(q_lines, normalize_inline(LineOf(r)))
    /\ UNCHANGED <<years, current_year, current_qnum, options, current_opt, in_options>>

\* else: q_lines.append(line)
StemLine(r) ==
    /\ Read(r)
    /\ FallsThrough(r)
    /\ current_year # None /\ current_qnum # None
    /\ ~OPT_RE_match(LineOf(r))
    /\ ~(in_options /\ current_opt # NoLetter)
    /\ q_lines' = Append(q_lines, LineOf(r))
    /\ UNCHANGED <<years, current_year, current_qnum, options, current_opt, in_options>>

\* The option test entered without a year or an open question: a marker line
\* starts option accumulation.
Discard_accumulates(r) ==
    /\ Read(r)
    /\ FallsThrough(r)
    /\ ~(current_year # None /\ current_qnum # None)
    /\ IF OPT_RE_match(LineOf(r))
       THEN /\ in_options' = TRUE
            /\ current_opt' = OPT_RE_group1(LineOf(r))
            /\ options' = place_option(options, OPT_RE_group1(LineOf(r)),
                                       OPT_RE_group2(LineOf(r)))
       ELSE UNCHANGED <<options, current_opt, in_options>>
    /\ UNCHANGED <<years, current_year, current_qnum, q_lines>>

\* No year or no open question: the loop body does nothing with the line.
Discard(r) ==
    /\ Read(r)
    /\ FallsThrough(r)
    /\ ~(current_year # None /\ current_qnum # None)
    /\ UNCHANGED <<years, current_year, current_qnum, q_lines, options, current_opt, in_options>>

\* The return without the final flush_question().
EndOfInput_no_flush ==
    /\ pc = "loop"
    /\ left = 0
    /\ pc' = "done"
    /\ UNCHANGED <<years, current_year, current_qnum, q_lines, options,
                   current_opt, in_options, raw, left, arg, ret>>

\* After the loop: flush_question(); return years
EndOfInput ==
    /\ pc = "loop"
    /\ left = 0
    /\ pc' = "done"
    /\ years' = FlushedYears
    /\ current_qnum' = None
    /\ q_lines' = FlushedLines
    /\ options' = FlushedOptions
    /\ current_opt' = IF FlushIsNoOp THEN current_opt ELSE NoLetter
    /\ in_options' = IF FlushIsNoOp THEN in_options ELSE FALSE
    /\ UNCHANGED <<current_year, raw, left, arg, ret>>

Next ==
    \/ \E r \in Lines : YearHeading(r)
    \/ \E r \in Lines : QuestionStart(r)
    \/ \E r \in Lines : SubPoint(r)
    \/ \E r \in Lines : OptionMarker(r)
    \/ \E r \in Lines : OptionContinuation(r)
    \/ \E r \in Lines : StemLine(r)
    \/ \E r \in Lines : Discard(r)
    \/ EndOfInput

Spec == Init /\ [][Next]_vars

\* The parser on texts that repeat an option label.
NextDup ==
    \/ \E r \in DupLines : YearHeading(r)
    \/ \E r \in DupLines : QuestionStart(r)
    \/ \E r \in DupLines : SubPoint(r)
    \/ \E r \in DupLines : OptionMarker(r)
    \/ \E r \in DupLines : OptionContinuation(r)
    \/ \E r \in DupLines : StemLine(r)
    \/ \E r \in DupLines : Discard(r)
    \/ EndOfInput

SpecDup == InitDup /\ [][NextDup]_vars

\* finalize_question_text called on a stem buffer.
InitFinalize ==
    /\ years = EmptyDict
    /\ current_year = None
    /\ current_qnum = None
    /\ q_lines = <<>>
    /\ options = EmptyDict
    /\ current_opt = NoLetter
    /\ in_options = FALSE
    /\ raw = None
    /\ left = 0
    /\ pc = "call"
    /\ arg \in StemBuffers
    /\ ret = None

CallFinalize ==
    /\ pc = "call"
    /\ pc' = "return"
    /\ ret' = finalize_question_text(arg)
    /\ UNCHANGED <<years, current_year, current_qnum, q_lines, options,
                   current_opt, in_options, raw, left, arg>>

NextFinalize == CallFinalize

SpecFinalize == InitFinalize /\ [][NextFinalize]_vars

\* ------------------------------------------------------- table renderer
\* sep.join(parts)
RECURSIVE join(_, _)
join(sep, parts) ==
    IF parts = <<>> THEN <<>>
    ELSE IF Len(parts) = 1 THEN parts[1]
         ELSE parts[1] \o sep \o join(sep, Tail(parts))

\* txt of a cell, given the texts of its paragraphs: the stripped texts joined
\* by a space, whitespace runs collapsed, stripped.
CellText(paragraphs) ==
    strip(CollapseSpaces(
        join(<<" ">>, [k \in 1..Len(paragraphs) |-> strip(paragraphs[k])])))

\* max(len(r) for r in rows)
ColCount(rows) ==
    CHOOSE m \in {Len(rows[i]) : i \in 1..Len(rows)} :
        \A i \in 1..Len(rows) : Len(rows[i]) <= m

\* The row left as it is: no padding.
PadRow_unpadded(r, col_count) == r

\* r + [""] * (col_count - len(r))
PadRow(r, col_count) == r \o [j \in 1..(col_count - Len(r)) |-> <<>>]

\* "| " + " | ".join(r) + " |"
RowLine(r) == <<"|", " ">> \o join(<<" ", "|", " ">>, r) \o <<" ", "|">>

\* tbl is the list of rows, a row the list of its cells, a cell the list of
\* the texts of its paragraphs.
table_to_markdown(tbl) ==
    LET rows == [i \in 1..Len(tbl) |->
                    [j \in 1..Len(tbl[i]) |-> CellText(tbl[i][j])]]
    IN  IF rows = <<>> THEN <<>>
        ELSE LET col_count == ColCount(rows)
                 padded == [i \in 1..Len(rows) |-> PadRow(rows[i], col_count)]
                 header == RowLine(padded[1])
                 sep == RowLine([j \in 1..col_count |-> <<"-", "-", "-">>])
             IN  join_nl(<<header, sep>> \o [i \in 1..(Len(padded) - 1) |-> RowLine(padded[i + 1])])

\* Cells of a Word table: "X", " Y" and a cell of the two paragraphs "1", "".
CellX == << <<"X">> >>

CellY == << <<" ", "Y">> >>

Cell1 == << <<"1">>, <<>> >>

TableCells == {CellX, CellY, Cell1}

TableRows == UNION {[1..k -> TableCells] : k \in 1..MaxCols}

Tables == UNION {[1..k -> TableRows] : k \in 0..MaxRows}

\* table_to_markdown called on a table.
InitRender ==
    /\ years = EmptyDict
    /\ current_year = None
    /\ current_qnum = None
    /\ q_lines = <<>>
    /\ options = EmptyDict
    /\ current_opt = NoLetter
    /\ in_options = FALSE
    /\ raw = None
    /\ left = 0
    /\ pc = "render"
    /\ arg \in Tables
    /\ ret = None

CallRender ==
    /\ pc = "render"
    /\ pc' = "rendered"
    /\ ret' = table_to_markdown(arg)
    /\ UNCHANGED <<years, current_year, current_qnum, q_lines, options,
                   current_opt, in_options, raw, left, arg>>

NextRender == CallRender

SpecRender == InitRender /\ [][NextRender]_vars

\* ------------------------------------------- texts with a rendered table
\* text.splitlines() for a text whose only line break is "\n".
RECURSIVE splitlines(_)
splitlines(text) ==
    IF text = <<>> THEN <<>>
    ELSE IF \A i \in 1..Len(text) : text[i] # "\n" THEN <<text>>
    ELSE LET k == CHOOSE i \in 1..Len(text) :
                    text[i] = "\n" /\ \A j \in 1..(i - 1) : text[j] # "\n"
         IN  <<SubSeq(text, 1, k - 1)>> \o splitlines(SubSeq(text, k + 1, Len(text)))

\* The lines of the block read_docx_text puts into the text for the table of
\* the rows [["X", "Y"], ["1"]].
TableBlock == splitlines(table_to_markdown(<< <<CellX, CellY>>, <<Cell1>> >>))

TableBlockLines == {TableBlock[k] : k \in 1..Len(TableBlock)}

\* The lines of the texts that hold the table.
TableDocLines ==
    { Y2020,                              \* "2020"
      <<"1", ".", " ", "x">>,             \* "1. x"
      OptCats }                           \* "(a) cats"
    \cup TableBlockLines

InitTable == \E len \in 0..MaxTableDocLines : ParseEntry(len)

\* The parser on texts that hold a rendered table.
NextTable ==
    \/ \E r \in TableDocLines : YearHeading(r)
    \/ \E r \in TableDocLines : QuestionStart(r)
    \/ \E r \in TableDocLines : SubPoint(r)
    \/ \E r \in TableDocLines : OptionMarker(r)
    \/ \E r \in TableDocLines : OptionContinuation(r)
    \/ \E r \in TableDocLines : StemLine(r)
    \/ \E r \in TableDocLines : Discard(r)
    \/ EndOfInput

SpecTable == InitTable /\ [][NextTable]_vars

\* ----------------------------------- texts with multi-digit question numbers
\* The lines of the texts whose question numbers have one, two and three
\* digits, with and without leading zeros.
IdLines ==
    { Y2020,                              \* "2020"
      <<"3", ".">>,                       \* "3."
      <<"0", "0", "7", ".">>,             \* "007."
      <<"1", "2", ".">>,                  \* "12."
      <<"1", "2", "3", ".">>,             \* "123."
      OptCats,                            \* "(a) cats"
      <<" ", "y">> }                      \* " y"

InitIds == \E len \in 0..MaxIdLines : ParseEntry(len)

\* The parser on texts with multi-digit question numbers.
NextIds ==
    \/ \E r \in IdLines : YearHeading(r)
    \/ \E r \in IdLines : QuestionStart(r)
    \/ \E r \in IdLines : SubPoint(r)
    \/ \E r \in IdLines : OptionMarker(r)
    \/ \E r \in IdLines : OptionContinuation(r)
    \/ \E r \in IdLines : StemLine(r)
    \/ \E r \in IdLines : Discard(r)
    \/ EndOfInput

SpecIds == InitIds /\ [][NextIds]_vars

\* ------------------------------------------------- info/id_corrector.py
\* ord(c) of a digit character.
ord(c) == 48 + DigitVal(c)

\* s < t for two Python strings of digits (lexicographic on the characters).
RECURSIVE str_lt(_, _)
str_lt(s, t) ==
    IF t = <<>> THEN FALSE
    ELSE IF s = <<>> THEN TRUE
    ELSE IF Head(s) = Head(t) THEN str_lt(Tail(s), Tail(t))
    ELSE ord(Head(s)) < ord(Head(t))

\* sorted(keys, reverse=True)
RECURSIVE sorted_reverse(_)
sorted_reverse(keys) ==
    IF keys = {} THEN <<>>
    ELSE LET m == CHOOSE x \in keys : \A y \in keys \ {x} : str_lt(y, x)
         IN  <<m>> \o sorted_reverse(keys \ {m})

\* f"{n:03}": decimal, padded on the left with zeros to at least 3 characters.
RECURSIVE zfill(_, _)
zfill(s, width) == IF Len(s) < width THEN zfill(<<"0">> \o s, width) ELSE s

fmt03(n) == zfill(str(n), 3)

\* new_id = f"ENVI-{year}-{global_id_counter:03}"
new_id(year, global_id_counter) ==
    <<"E", "N", "V", "I", "-">> \o year \o <<"-">> \o fmt03(global_id_counter)

\* for question in questions_list: question['id'] = new_id; counter += 1
RECURSIVE QuestionLoop(_, _, _)
QuestionLoop(year, questions_list, global_id_counter) ==
    IF questions_list = <<>> THEN <<>>
    ELSE <<[Head(questions_list) EXCEPT !.id = new_id(year, global_id_counter)]>>
         \o QuestionLoop(year, Tail(questions_list), global_id_counter + 1)

\* The year loop with the counter set back to 1 for every year.
RECURSIVE YearLoop_resets(_, _, _)
YearLoop_resets(data, years_sorted, global_id_counter) ==
    IF years_sorted = <<>> THEN data
    ELSE YearLoop_resets(
             [data EXCEPT ![Head(years_sorted)] = QuestionLoop(Head(years_sorted), @, 1)],
             Tail(years_sorted), 1)

\* for year in years_sorted: ...  (data stands for data['years'])
RECURSIVE YearLoop(_, _, _)
YearLoop(data, years_sorted, global_id_counter) ==
    IF years_sorted = <<>> THEN data
    ELSE YearLoop(
             [data EXCEPT ![Head(years_sorted)] =
                 QuestionLoop(Head(years_sorted), @, global_id_counter)],
             Tail(years_sorted),
             global_id_counter + Len(data[Head(years_sorted)]))

\* data['years'] as written to the output file.
reindex_polity_questions(data) == YearLoop(data, sorted_reverse(DOMAIN data), 1)

Y2021 == <<"2", "0", "2", "1">>

\* Year keys of the file that is re-indexed.
ReindexYears == {Y2019, Y2020, Y2021}

\* Questions of the file that is re-indexed: records written by the converter.
Q1 == QuestionRecord(Y2020, <<"1">>, << <<"x">> >>, ("a" :> Cats))

Q2 == QuestionRecord(Y2020, <<"2">>, <<>>, EmptyDict)

QuestionLists == UNION {[1..k -> {Q1, Q2}] : k \in 0..MaxYearQuestions}

ReindexInputs == UNION {[S -> QuestionLists] : S \in SUBSET ReindexYears}

\* reindex_polity_questions run on the loaded file.
InitReindex ==
    /\ years = EmptyDict
    /\ current_year = None
    /\ current_qnum = None
    /\ q_lines = <<>>
    /\ options = EmptyDict
    /\ current_opt = NoLetter
    /\ in_options = FALSE
    /\ raw = None
    /\ left = 0
    /\ pc = "reindex"
    /\ arg \in ReindexInputs
    /\ ret = None

CallReindex ==
    /\ pc = "reindex"
    /\ pc' = "reindexed"
    /\ ret' = reindex_polity_questions(arg)
    /\ UNCHANGED <<years, current_year, current_qnum, q_lines, options,
                   current_opt, in_options, raw, left, arg>>

NextReindex == CallReindex

SpecReindex == InitReindex /\ [][NextReindex]_vars

\* ================================================================ claims
UpperOrder == <<"A", "B", "C", "D">>

\* The records emitted so far.
Records == UNION {{years[y][i] : i \in 1..Len(years[y])} : y \in DOMAIN years}

\* This step reads a line (one iteration of the for loop).
LineRead == pc = "loop" /\ left' = left - 1

\* The line read by this step is handled as an option marker.
MarkerArrives ==
    /\ LineRead
    /\ current_year # None /\ current_qnum # None
    /\ ~YEAR_RE_match(LineOf(raw'))
    /\ ~QSTART_RE_match(LineOf(raw'))
    /\ OPT_RE_match(LineOf(raw'))

\* The line read by this step is plain content.
PlainArrives ==
    /\ LineRead
    /\ ~YEAR_RE_match(LineOf(raw'))
    /\ ~QSTART_RE_match(LineOf(raw'))
    /\ ~OPT_RE_match(LineOf(raw'))

\* The line read by this step has the shape of a question start.
QStartShapeArrives ==
    /\ LineRead
    /\ ~YEAR_RE_match(LineOf(raw'))
    /\ QSTART_RE_match(LineOf(raw'))

AllSlotsFilled == \A l \in OptLetters : SlotFilled(options, l)

\* The first of a, b, c, d whose slot is absent or empty (some slot is).
FirstFreeLetter ==
    LetterOrder[CHOOSE i \in 1..4 :
        /\ ~SlotFilled(options, LetterOrder[i])
        /\ \A j \in 1..(i - 1) : SlotFilled(options, LetterOrder[j])]

\* C1: every emitted record has exactly 4 option entries, the i-th of which
\* begins with "A. ", "B. ", "C. ", "D. " respectively.
C1_FourOptions ==
    \A rec \in Records :
        /\ Len(rec.options) = 4
        /\ \A i \in 1..4 :
              /\ Len(rec.options[i]) >= 3
              /\ SubSeq(rec.options[i], 1, 3) = <<UpperOrder[i], ".", " ">>

\* A record whose question saw a duplicated marker and no "c" or "d" marker.
C1_Witness ==
    \E rec \in Records :
        /\ rec.options[1] = <<"A", ".", " ">> \o Cats
        /\ rec.options[2] = <<"B", ".", " ">> \o Dogs
        /\ rec.options[3] = <<"C", ".", " ">>
        /\ rec.options[4] = <<"D", ".", " ">>

\* C2: an option-marker line that arrives when the slots a, b, c, d all hold
\* non-empty text leaves all four slots as they were (the text is dropped).
C2_OverflowDropped ==
    [][(MarkerArrives /\ AllSlotsFilled) => options' = options]_vars

\* C3: an option-marker line whose target slot holds non-empty text, while
\* some slot is absent or empty, puts its text into the first absent-or-empty
\* slot in the order a, b, c, d and leaves every other slot, the target
\* included, as it was; "(a) cats" then "(a) dogs" gives a = cats, b = dogs.
C3_Displacement ==
    [][(/\ MarkerArrives
        /\ SlotFilled(options, OPT_RE_group1(LineOf(raw')))
        /\ ~AllSlotsFilled)
       => /\ options' = DictSet(options, FirstFreeLetter, OPT_RE_group2(LineOf(raw')))
          /\ FirstFreeLetter # OPT_RE_group1(LineOf(raw'))
          /\ options'[OPT_RE_group1(LineOf(raw'))] = options[OPT_RE_group1(LineOf(raw'))]
          /\ (options = ("a" :> Cats) /\ raw' = OptDogs
                => options' = ("a" :> Cats) @@ ("b" :> Dogs))]_vars

\* "(a) dogs" was just read after "(a) cats": dogs sits in slot b.
C3_Witness ==
    /\ raw = OptDogs
    /\ options = ("a" :> Cats) @@ ("b" :> Dogs)
    /\ current_opt = "a"

\* The last line read was an option marker whose text went to another slot:
\* the slot of its letter holds a different, non-empty text.
JustDisplaced ==
    /\ pc = "loop"
    /\ in_options
    /\ ~YEAR_RE_match(LineOf(raw))
    /\ ~QSTART_RE_match(LineOf(raw))
    /\ OPT_RE_match(LineOf(raw))
    /\ current_opt = OPT_RE_group1(LineOf(raw))
    /\ SlotFilled(options, current_opt)
    /\ options[current_opt] # OPT_RE_group2(LineOf(raw))
    /\ \E l \in DOMAIN options \ {current_opt} : options[l] = OPT_RE_group2(LineOf(raw))

\* C4: after a repeated label was displaced, a plain continuation line leaves
\* the slot of the repeated letter holding the text captured first.
C4_GuardProtects ==
    [][(JustDisplaced /\ PlainArrives)
       => DictGet(options', current_opt) = options[current_opt]]_vars

\* C5: in InStem a question-start-shaped line neither opens a question nor
\* flushes; the line is appended to the stem buffer.
C5_SubPoint ==
    [][(/\ QStartShapeArrives
        /\ current_year # None /\ current_qnum # None
        /\ ~in_options)
       => /\ current_qnum' = current_qnum
          /\ years' = years
          /\ q_lines' = Append(q_lines, LineOf(raw'))
          /\ UNCHANGED <<current_year, options, current_opt, in_options>>]_vars

\* "2." was read as a sub-point of question 1.
C5_Witness ==
    /\ raw = <<"2", ".">>
    /\ current_qnum = <<"1">>
    /\ q_lines = << <<"x">>, <<"2", ".">> >>
    /\ ~in_options
    /\ years = EmptyDict

\* The record flush_question appends for the open question.
OpenQuestionRecord == QuestionRecord(current_year, current_qnum, q_lines, options)

\* The list of the year y, empty when the year has no group yet.
YearList(ys, y) == IF y \in DOMAIN ys THEN ys[y] ELSE <<>>

\* C6: a question-start line read with a year set, in AwaitingQuestion or
\* InOptions, flushes the open question (if any), opens a question with the
\* captured number, seeds the stem with the trailing text only if that is
\* non-empty, clears options and active option, and ends in InStem.
C6_QuestionStart ==
    [][(/\ QStartShapeArrives
        /\ current_year # None
        /\ (current_qnum = None \/ in_options))
       => /\ IF current_qnum # None
             THEN /\ DOMAIN years' = DOMAIN years \cup {current_year}
                  /\ years'[current_year]
                        = Append(YearList(years, current_year), OpenQuestionRecord)
                  /\ \A y \in DOMAIN years \ {current_year} : years'[y] = years[y]
             ELSE years' = years
          /\ current_qnum' = QSTART_RE_group1(LineOf(raw'))
          /\ q_lines' = IF QSTART_RE_group2(LineOf(raw')) = <<>>
                        THEN <<>>
                        ELSE <<QSTART_RE_group2(LineOf(raw'))>>
          /\ options' = EmptyDict
          /\ current_opt' = NoLetter
          /\ in_options' = FALSE
          /\ current_qnum' # None
          /\ current_year' = current_year]_vars

\* "2." was read in InOptions: question 1 is flushed, question 2 is open with
\* an empty stem.
C6_Witness ==
    /\ raw = <<"2", ".">>
    /\ current_qnum = <<"2">>
    /\ q_lines = <<>>
    /\ options = EmptyDict
    /\ ~in_options
    /\ \E rec \in Records : rec.options[1] = <<"A", ".", " ">> \o Cats

\* C7: within each year group the identifiers of the records are pairwise
\* distinct.
C7_UniqueIds ==
    \A y \in DOMAIN years :
        \A i, j \in 1..Len(years[y]) :
            i # j => years[y][i].id # years[y][j].id

FourDigits(t) == Len(t) = 4 /\ \A i \in 1..4 : t[i] \in Digits

\* C8: until the first year heading is read no line changes the parser
\* state (nothing is opened or accumulated, the year mapping stays empty),
\* and every key of the year mapping is the 4-digit token of a year heading
\* that was read.
C8_NoYearInert ==
    [][/\ current_year = None
          => /\ UNCHANGED <<years, current_qnum, q_lines, options, current_opt, in_options>>
             /\ years = EmptyDict /\ current_qnum = None /\ q_lines = <<>>
             /\ options = EmptyDict /\ current_opt = NoLetter /\ ~in_options
       /\ current_year' # current_year
          => /\ LineRead
             /\ FourDigits(current_year')
             /\ current_year' = strip(raw')
       /\ DOMAIN years' \subseteq DOMAIN years \cup {current_year}
       /\ \A y \in DOMAIN years : FourDigits(y)]_vars

\* A text without a year heading was read to its end, the last line an option
\* marker: nothing was opened and the year mapping is empty.
C8_Witness ==
    /\ pc = "done"
    /\ current_year = None
    /\ raw = OptCats
    /\ current_qnum = None
    /\ options = EmptyDict
    /\ years = EmptyDict

\* C9: once an option marker was seen, no line changes the stem buffer until
\* the question is flushed; a plain line then changes at most the option
\* text, and no line without a flush changes both stem and options.
C9_StemFrozen ==
    [][/\ (in_options /\ years' = years)
          => /\ q_lines' = q_lines
             /\ current_qnum' = current_qnum
             /\ in_options'
       /\ (in_options /\ PlainArrives)
          => UNCHANGED <<years, current_year, current_qnum, q_lines, current_opt, in_options>>
       /\ years' = years => ~(q_lines' # q_lines /\ options' # options)]_vars

\* A plain line was read in InOptions: it went to option a, not to the stem.
C9_Witness ==
    /\ in_options
    /\ raw = <<" ", "y">>
    /\ q_lines = << <<"x">> >>
    /\ options = ("a" :> (Cats \o <<" ", "y">>))

\* s.split("\n")
RECURSIVE SplitNl(_)
SplitNl(s) ==
    IF \A i \in 1..Len(s) : s[i] # "\n" THEN <<s>>
    ELSE LET k == CHOOSE i \in 1..Len(s) :
                    s[i] = "\n" /\ \A j \in 1..(i - 1) : s[j] # "\n"
         IN  <<SubSeq(s, 1, k - 1)>> \o SplitNl(SubSeq(s, k + 1, Len(s)))

NonBlankLines(lines) == SelectSeq(lines, LAMBDA ln : ln # <<>>)

\* The non-blank lines of lines from position i on, each preceded by one blank
\* line when the line before it is blank and some non-blank line precedes it.
RECURSIVE StemFrom(_, _)
StemFrom(lines, i) ==
    IF i > Len(lines) THEN <<>>
    ELSE IF lines[i] = <<>> THEN StemFrom(lines, i + 1)
    ELSE (IF i > 1 /\ lines[i - 1] = <<>> /\ \E j \in 1..(i - 1) : lines[j] # <<>>
          THEN << <<>> >> ELSE <<>>)
         \o <<lines[i]>> \o StemFrom(lines, i + 1)

ExampleStem ==
    << <<>>, <<"C">>, <<>>, <<"1", ".", " ", "A">>, <<"2", ".", " ", "B">>, <<>> >>

\* C10: the finalized stem is the buffer without leading and trailing blank
\* lines, every run of blank lines replaced by one blank line, joined by
\* newlines: it neither starts nor ends with a blank line, has no two adjacent
\* blank lines and keeps the non-blank lines in order.
C10_FinalizedStem ==
    pc = "return" =>
        LET out == SplitNl(ret)
        IN  /\ NonBlankLines(out) = NonBlankLines(arg)
            /\ IF NonBlankLines(arg) = <<>>
               THEN ret = <<>>
               ELSE /\ out = StemFrom(arg, 1)
                    /\ out[1] # <<>>
                    /\ out[Len(out)] # <<>>
                    /\ \A i \in 1..(Len(out) - 1) : ~(out[i] = <<>> /\ out[i + 1] = <<>>)
            /\ arg = ExampleStem
                 => ret = <<"C", "\n", "\n", "1", ".", " ", "A", "\n", "2", ".", " ", "B">>

\* A buffer with a leading blank, a run of two blanks and a trailing blank.
C10_Witness ==
    /\ pc = "return"
    /\ arg = << <<>>, <<"C">>, <<>>, <<>>, <<"1", ".", " ", "A">>, <<>> >>
    /\ ret = <<"C", "\n", "\n", "1", ".", " ", "A">>

\* C11: the output is append-only: every step leaves each year's list as it
\* was or appends one record to it, changes at most one year's list, and a new
\* year group starts with one record; no emitted record ever changes.
C11_AppendOnly ==
    [][/\ DOMAIN years \subseteq DOMAIN years'
       /\ \A y \in DOMAIN years :
             \/ years'[y] = years[y]
             \/ /\ Len(years'[y]) = Len(years[y]) + 1
                /\ SubSeq(years'[y], 1, Len(years[y])) = years[y]
       /\ \A y \in DOMAIN years' \ DOMAIN years : Len(years'[y]) = 1
       /\ Cardinality({y \in DOMAIN years' : YearList(years, y) # years'[y]}) <= 1]_vars

\* Question 2 of 2020 was appended after question 1, which is unchanged.
C11_Witness ==
    /\ Y2020 \in DOMAIN years
    /\ Len(years[Y2020]) = 2
    /\ years[Y2020][1].id = <<"P", "O", "L", "-">> \o Y2020 \o <<"-", "0", "1">>
    /\ years[Y2020][1].options[1] = <<"A", ".", " ">> \o Cats
    /\ years[Y2020][2].id = <<"P", "O", "L", "-">> \o Y2020 \o <<"-", "0", "2">>

\* Number of questions of the years in S of the file d.
RECURSIVE QuestionCount(_, _)
QuestionCount(d, S) ==
    IF S = {} THEN 0
    ELSE LET y == CHOOSE z \in S : TRUE
         IN  Len(d[y]) + QuestionCount(d, S \ {y})

\* Position, counted from 1 over the whole file, of the i-th question of the
\* year y when the years are visited from the latest to the earliest.
SeqNo(d, y, i) ==
    i + QuestionCount(d, {z \in DOMAIN d : int(z) > int(y)})

\* n in decimal with at least 3 digits.
Pad3(n) ==
    IF n < 10 THEN <<"0", "0", DigitChar(n)>>
    ELSE IF n < 100 THEN <<"0", DigitChar(n \div 10), DigitChar(n % 10)>>
    ELSE str(n)

IdPrefix == <<"E", "N", "V", "I">>

\* C12: the re-indexing visits the years in descending order with one counter
\* from 1 that is never reset: the i-th question of a year gets the id
\* <PREFIX>-<year>-<its position over the whole file, at least 3 digits>, the
\* positions used are exactly 1..N, and nothing but the id changes.
C12_Reindex ==
    pc = "reindexed" =>
        /\ DOMAIN ret = DOMAIN arg
        /\ \A y \in DOMAIN arg :
              /\ Len(ret[y]) = Len(arg[y])
              /\ \A i \in 1..Len(arg[y]) :
                    ret[y][i] = [arg[y][i] EXCEPT
                                   !.id = IdPrefix \o <<"-">> \o y \o <<"-">>
                                          \o Pad3(SeqNo(arg, y, i))]
        /\ LET N == QuestionCount(arg, DOMAIN arg)
               suffix(q) == SubSeq(q.id, Len(IdPrefix) + 7, Len(q.id))
           IN  /\ UNION {{int(suffix(ret[y][i])) : i \in 1..Len(ret[y])} : y \in DOMAIN ret}
                     = 1..N
               /\ \A y, z \in DOMAIN ret : \A i \in 1..Len(ret[y]) : \A j \in 1..Len(ret[z]) :
                     (y # z \/ i # j) => suffix(ret[y][i]) # suffix(ret[z][j])
        /\ arg = (Y2020 :> <<Q1, Q2>>) @@ (Y2019 :> <<Q2>>)
             => /\ ret[Y2020][1].id = IdPrefix \o <<"-">> \o Y2020 \o <<"-", "0", "0", "1">>
                /\ ret[Y2020][2].id = IdPrefix \o <<"-">> \o Y2020 \o <<"-", "0", "0", "2">>
                /\ ret[Y2019][1].id = IdPrefix \o <<"-">> \o Y2019 \o <<"-", "0", "0", "3">>

\* The file {"2020": [q1, q2], "2019": [q3]} was re-indexed.
C12_Witness ==
    /\ pc = "reindexed"
    /\ arg = (Y2020 :> <<Q1, Q2>>) @@ (Y2019 :> <<Q2>>)
    /\ ret[Y2019][1].id = IdPrefix \o <<"-">> \o Y2019 \o <<"-", "0", "0", "3">>
    /\ ret[Y2019][1].question = Q2.question

\* s.split(c) for a character c.
RECURSIVE SplitOn(_, _)
SplitOn(s, c) ==
    IF \A i \in 1..Len(s) : s[i] # c THEN <<s>>
    ELSE LET k == CHOOSE i \in 1..Len(s) :
                    s[i] = c /\ \A j \in 1..(i - 1) : s[j] # c
         IN  <<SubSeq(s, 1, k - 1)>> \o SplitOn(SubSeq(s, k + 1, Len(s)), c)

\* The cells of a line of a markdown table: the texts between its pipes.
CellsOf(line) ==
    LET parts == SplitOn(line, "|")
    IN  [j \in 1..(Len(parts) - 2) |-> strip(parts[j + 1])]

IsTableLine(line) ==
    /\ Len(line) >= 2
    /\ line[1] = "|"
    /\ line[Len(line)] = "|"

\* The texts of the cells of row r, followed by empty cells up to width w.
ExpectedCells(r, w) ==
    [j \in 1..w |-> IF j <= Len(r) THEN CellText(r[j]) ELSE <<>>]

LongestRow(tbl) ==
    CHOOSE m \in 0..MaxCols + 1 :
        /\ \E i \in 1..Len(tbl) : Len(tbl[i]) = m
        /\ \A i \in 1..Len(tbl) : Len(tbl[i]) <= m

\* The table of the rows [["X", "Y"], ["1"]].
ExampleTable == << <<CellX, CellY>>, <<Cell1>> >>

ExampleBlock ==
    <<"|", " ", "X", " ", "|", " ", "Y", " ", "|", "\n",
      "|", " ", "-", "-", "-", " ", "|", " ", "-", "-", "-", " ", "|", "\n",
      "|", " ", "1", " ", "|", " ", " ", "|">>

\* C13: a table of n >= 1 rows is rendered as n + 1 lines: the first row, a
\* row of "---" cells, then the other rows in order, every line with as many
\* cells as the longest row, short rows padded on the right with empty cells;
\* no rows give the empty string.
C13_TableRendered ==
    pc = "rendered" =>
        IF arg = <<>> THEN ret = <<>>
        ELSE LET out == SplitNl(ret)
                 w == LongestRow(arg)
             IN  /\ Len(out) = Len(arg) + 1
                 /\ \A k \in 1..Len(out) :
                       IsTableLine(out[k]) /\ Len(CellsOf(out[k])) = w
                 /\ CellsOf(out[1]) = ExpectedCells(arg[1], w)
                 /\ CellsOf(out[2]) = [j \in 1..w |-> <<"-", "-", "-">>]
                 /\ \A i \in 2..Len(arg) : CellsOf(out[i + 1]) = ExpectedCells(arg[i], w)
                 /\ arg = ExampleTable => ret = ExampleBlock

\* A table whose second row is shorter than its first was rendered.
C13_Witness ==
    /\ pc = "rendered"
    /\ arg = ExampleTable
    /\ ret = ExampleBlock

\* The lines of blk are consecutive elements of seq, in order.
ContainsBlock(seq, blk) ==
    \E i \in 0..(Len(seq) - Len(blk)) : SubSeq(seq, i + 1, i + Len(blk)) = blk

\* The record a flushing step appends.
NewRecord == years'[current_year][Len(years'[current_year])]

\* C14: a line of a rendered table block is never a year heading, question
\* start or option marker and never flushes or opens a question; in InStem it
\* is appended to the stem as read, and a stem that holds the block is emitted
\* with the lines of the block consecutive, in order and unchanged.
C14_TableInStem ==
    [][/\ (LineRead /\ raw' \in TableBlockLines)
          => /\ ~YEAR_RE_match(LineOf(raw'))
             /\ ~QSTART_RE_match(LineOf(raw'))
             /\ ~OPT_RE_match(LineOf(raw'))
             /\ UNCHANGED <<years, current_year, current_qnum, in_options>>
             /\ (current_qnum # None /\ ~in_options)
                  => q_lines' = Append(q_lines, raw') /\ options' = options
       /\ (years' # years /\ ContainsBlock(q_lines, TableBlock))
          => ContainsBlock(SplitNl(NewRecord.question), SplitNl(ExampleBlock))]_vars

\* The table block arrived in the stem of question 1 and was emitted.
C14_Witness ==
    \E rec \in Records :
        rec.question = <<"x", "\n">> \o ExampleBlock

\* The last line of a text.
LastLine(t) == SplitNl(t)[Len(SplitNl(t))]

\* C15: a line of a rendered table block that arrives in InOptions is added to
\* the text of the active option unchanged and on a line of its own.
C15_TableInOption ==
    [][(LineRead /\ in_options /\ raw' \in TableBlockLines)
       => LastLine(DictGet(options', current_opt)) = raw']_vars

\* The text of the active option after the plain line ln is joined to it.
JoinedToActive(ln) ==
    LET old == DictGet(options, current_opt)
    IN  IF old = <<>> THEN strip(ln) ELSE old \o <<" ">> \o strip(ln)

\* C16: the active option is the letter matched by the last option marker,
\* also when its text went to another slot; in InOptions a non-blank plain
\* line is joined by a space to the slot of that letter and changes no other
\* slot, and a blank line changes nothing.
C16_ActiveOption ==
    [][/\ MarkerArrives => current_opt' = OPT_RE_group1(LineOf(raw'))
       /\ (in_options /\ PlainArrives)
          => /\ current_opt' = current_opt
             /\ current_opt \in OptLetters
             /\ IF \A i \in 1..Len(raw') : raw'[i] = " "
                THEN options' = options
                ELSE /\ DOMAIN options' = DOMAIN options \cup {current_opt}
                     /\ options'[current_opt] = JoinedToActive(raw')
                     /\ \A l \in DOMAIN options \ {current_opt} : options'[l] = options[l]]_vars

\* " y" was read after "(a) cats" and "(a) dogs": it was joined to slot a, the
\* letter of the last marker, and slot b, where dogs went, is unchanged.
C16_Witness ==
    /\ raw = <<" ", "y">>
    /\ current_opt = "a"
    /\ options = ("a" :> (Cats \o <<" ", "y">>)) @@ ("b" :> Dogs)

\* Number of records in the year mapping ys.
RECURSIVE CountIn(_, _)
CountIn(ys, S) ==
    IF S = {} THEN 0
    ELSE LET y == CHOOSE z \in S : TRUE
         IN  Len(ys[y]) + CountIn(ys, S \ {y})

RecordCount(ys) == CountIn(ys, DOMAIN ys)

\* 1 when a question is open, 0 otherwise.
OpenCount(qnum) == IF qnum # None THEN 1 ELSE 0

\* This step reads a line that opens a question.
QuestionOpens ==
    /\ QStartShapeArrives
    /\ current_year # None
    /\ (current_qnum = None \/ in_options)

\* C17: no opened question is lost or duplicated: emitted records plus the
\* open question grow by one exactly when a question is opened; a record is
\* emitted only for the open question, at a year heading, at a line that opens
\* a question or at the end of input, as the last of its year; a flush with no
\* open question emits nothing; no question is open after the return.
C17_NoQuestionLost ==
    [][/\ RecordCount(years') + OpenCount(current_qnum')
            = RecordCount(years) + OpenCount(current_qnum)
              + (IF QuestionOpens THEN 1 ELSE 0)
       /\ current_qnum = None => years' = years
       /\ years' # years
          => /\ RecordCount(years') = RecordCount(years) + 1
             /\ years'[current_year] = Append(YearList(years, current_year), NewRecord)
             /\ NewRecord.id = <<"P", "O", "L", "-">> \o current_year \o <<"-">>
                                 \o fmt02d(int(current_qnum))
             /\ \/ pc' = "done"
                \/ QuestionOpens
                \/ LineRead /\ YEAR_RE_match(LineOf(raw'))
       /\ pc' = "done" => current_qnum' = None]_vars

\* Questions 1 and 2 of 2020 were opened in this order; question 2, opened by
\* the last line, was emitted at the end of input.
C17_Witness ==
    /\ pc = "done"
    /\ raw = <<"2", ".">>
    /\ current_qnum = None
    /\ DOMAIN years = {Y2020}
    /\ Len(years[Y2020]) = 2
    /\ years[Y2020][1].question = <<"x">>
    /\ years[Y2020][2].id = <<"P", "O", "L", "-">> \o Y2020 \o <<"-", "0", "2">>

\* The year component of an identifier "POL-<year>-<number>".
IdYear(id) == SubSeq(id, 5, 8)

\* C18: a year heading flushes the open question under the year that was
\* current before it and then switches the year; while a question is open the
\* year does not change, every record goes to the group of the year current
\* at its flush, and the year in every record's id is the key of its group.
C18_YearSwitch ==
    [][/\ (LineRead /\ YEAR_RE_match(LineOf(raw')))
          => /\ current_year' = strip(raw')
             /\ current_qnum' = None
             /\ IF current_qnum # None
                THEN /\ DOMAIN years' = DOMAIN years \cup {current_year}
                     /\ years'[current_year]
                           = Append(YearList(years, current_year), OpenQuestionRecord)
                     /\ \A y \in DOMAIN years \ {current_year} : years'[y] = years[y]
                ELSE years' = years
       /\ (current_qnum # None /\ current_year' # current_year) => years' # years
       /\ years' # years
          => /\ YearList(years', current_year) # YearList(years, current_year)
             /\ IdYear(NewRecord.id) = current_year
       /\ \A y \in DOMAIN years' : \A i \in 1..Len(years'[y]) :
             IdYear(years'[y][i].id) = y]_vars

\* " 2019" was read with question 1 of 2020 open: the record is in the group
\* 2020 and the current year is 2019.
C18_Witness ==
    /\ raw = <<" ">> \o Y2019
    /\ current_year = Y2019
    /\ DOMAIN years = {Y2020}
    /\ Len(years[Y2020]) = 1
    /\ years[Y2020][1].id = <<"P", "O", "L", "-">> \o Y2020 \o <<"-", "0", "1">>

\* The four states of the parsing state machine.
NoYear == current_year = None

AwaitingQuestion == current_year # None /\ current_qnum = None

InStem == current_year # None /\ current_qnum # None /\ ~in_options

InOptions == current_year # None /\ current_qnum # None /\ in_options

\* C19: the parser variables encode one of NoYear, AwaitingQuestion, InStem,
\* InOptions: a question number only with a year; in_options iff the options
\* map is non-empty iff an active option is set, and only with a question
\* open; option keys among a, b, c, d; stem and options empty without a
\* question.
C19_StateEncoding ==
    /\ current_qnum # None => current_year # None
    /\ in_options <=> options # EmptyDict
    /\ in_options <=> current_opt # NoLetter
    /\ in_options => current_qnum # None
    /\ current_opt \in OptLetters \cup {NoLetter}
    /\ DOMAIN options \subseteq OptLetters
    /\ Cardinality(DOMAIN options) <= 4
    /\ current_qnum = None => q_lines = <<>> /\ options = EmptyDict
    /\ Cardinality({s \in {"NoYear", "AwaitingQuestion", "InStem", "InOptions"} :
            \/ s = "NoYear" /\ NoYear
            \/ s = "AwaitingQuestion" /\ AwaitingQuestion
            \/ s = "InStem" /\ InStem
            \/ s = "InOptions" /\ InOptions}) = 1

\* InOptions, two slots filled, after a flush of an earlier question.
C19_Witness ==
    /\ InOptions
    /\ current_opt = "b"
    /\ DOMAIN options = {"a", "b"}
    /\ Records # {}

\* A digit string padded on the left with one zero when it is a single digit.
PadTwo(tok) == IF Len(tok) < 2 THEN <<"0">> \o tok ELSE tok

\* A digit string without its leading zeros (one digit is always kept).
RECURSIVE DropLeadingZeros(_)
DropLeadingZeros(tok) ==
    IF Len(tok) > 1 /\ Head(tok) = "0" THEN DropLeadingZeros(Tail(tok)) ELSE tok

PolPrefix == <<"P", "O", "L", "-">>

\* C20 as stated: the id of every emitted record is 'POL-', the current year,
\* a hyphen and the question's numeric token padded to at least two digits, a
\* token of two or more digits (leading zeros included) appearing unchanged.
C20_TokenUnchanged ==
    [][years' # years
       => NewRecord.id = PolPrefix \o current_year \o <<"-">> \o PadTwo(current_qnum)]_vars

\* C20 amended: the id of every emitted record is 'POL-', the current year, a
\* hyphen and the question's numeric token without its leading zeros, padded on
\* the left with a zero to at least two digits.
C20_TokenAsNumber ==
    [][years' # years
       => NewRecord.id = PolPrefix \o current_year \o <<"-">>
                           \o PadTwo(DropLeadingZeros(current_qnum))]_vars

\* The questions numbered "007." and "123." have been emitted: in this
\* vocabulary only the token 007 gives the number part 07.
C20_Witness ==
    /\ pc = "done"
    /\ \E q \in Records : q.id = PolPrefix \o Y2020 \o <<"-", "0", "7">>
    /\ \E q \in Records : q.id = PolPrefix \o Y2020 \o <<"-", "1", "2", "3">>

====
